---- MODULE Spec2Model ----
(***************************************************************************)
(* Model of unsquashfs-wrapper (src/src/lib.rs): the Unsquashfs handle     *)
(* (Status behind an RwLock, the cancel flag as an AtomicBool), extract()  *)
(* with its process_control thread, cancel(), and the output parser        *)
(* handle().                                                               *)
(*                                                                         *)
(* Text is a sequence of one-character strings.  extract() is called       *)
(* sequentially by one thread; cancel() is called from other threads.      *)
(* Every extract() call that spawns a child has its own process_control    *)
(* thread and its own child, indexed by the number of the call.            *)
(***************************************************************************)
EXTENDS Integers, Sequences, FiniteSets, TLC

\* ------------------------------------------------------------------ bounds
MaxExtracts == 2      \* extract() calls made by the calling thread
MaxCancels == 2       \* threads calling cancel(), one call each
MaxReads == 1         \* reads that return data, per extract() call
MaxItems == 3         \* lines of the input stream of the parser alone

Attempts == 1..MaxExtracts
Cancellers == 1..MaxCancels

\* ------------------------------------------------------------- text helpers
LF == "\n"
CR == "\r"
Separators == {CR, LF}
Whitespace == {" ", "\t"}
DigitChars == <<"0", "1", "2", "3", "4", "5", "6", "7", "8", "9">>
InvalidByte == "<FF>"

IsDigit(c) == \E d \in 1..10 : DigitChars[d] = c
DigitValue(c) == (CHOOSE d \in 1..10 : DigitChars[d] = c) - 1

\* str::from_utf8(&data[..count]) succeeds
Utf8Ok(chunk) == \A i \in 1..Len(chunk) : chunk[i] # InvalidByte

\* string.split(['\r', '\n']): n separators give n + 1 pieces, empty ones kept
RECURSIVE SplitFrom(_, _, _)
SplitFrom(s, i, cur) ==
    IF i > Len(s) THEN <<cur>>
    ELSE IF s[i] \in Separators THEN <<cur>> \o SplitFrom(s, i + 1, <<>>)
    ELSE SplitFrom(s, i + 1, Append(cur, s[i]))

Split(s) == SplitFrom(s, 1, <<>>)

\* str::trim
RECURSIVE TrimStart(_)
TrimStart(s) ==
    IF s # <<>> /\ s[1] \in Whitespace THEN TrimStart(Tail(s)) ELSE s

RECURSIVE TrimEnd(_)
TrimEnd(s) ==
    IF s # <<>> /\ s[Len(s)] \in Whitespace
    THEN TrimEnd(SubSeq(s, 1, Len(s) - 1)) ELSE s

Trim(s) == TrimEnd(TrimStart(s))

RECURSIVE DigitsValue(_, _)
DigitsValue(s, acc) ==
    IF s = <<>> THEN acc ELSE DigitsValue(Tail(s), 10 * acc + DigitValue(s[1]))

NoParse == [ok |-> FALSE, val |-> 0]

\* str::parse::<i32>: an optional sign, then one or more digits, nothing else
ParseI32(s) ==
    LET signed == s # <<>> /\ s[1] \in {"+", "-"}
        digits == IF signed THEN Tail(s) ELSE s
    IN  IF digits = <<>> \/ \E i \in 1..Len(digits) : ~IsDigit(digits[i])
        THEN NoParse
        ELSE [ok |-> TRUE,
              val |-> IF signed /\ s[1] = "-"
                      THEN 0 - DigitsValue(digits, 0)
                      ELSE DigitsValue(digits, 0)]

\* line.starts_with('[') && line.ends_with('%') && len >= 4
IsProgressShape(line) ==
    /\ Len(line) >= 4
    /\ line[1] = "["
    /\ line[Len(line)] = "%"

\* line[len - 4..len - 1]
ProgressField(line) == SubSeq(line, Len(line) - 3, Len(line) - 1)

\* ------------------------------------------------------------ the parser
\* The parser's locals: last_progress, output, and the calls made to callback.
HandleStart == [last_progress |-> 0, output |-> <<>>, callback |-> <<>>]

\* As HandleLine, with the value emitted not remembered
HandleLineForgetful(st, line) ==
    IF IsProgressShape(line)
    THEN LET p == ParseI32(Trim(ProgressField(line)))
         IN  IF p.ok /\ st.last_progress # p.val
             THEN [st EXCEPT !.callback = Append(@, p.val)]
             ELSE st
    ELSE IF Len(line) # 0
         THEN [st EXCEPT !.output = @ \o line \o <<LF>>]
         ELSE st

\* As HandleLine, with a line whose field does not parse kept as diagnostic
HandleLineKeepingGarbled(st, line) ==
    LET p == IF IsProgressShape(line)
             THEN ParseI32(Trim(ProgressField(line))) ELSE NoParse
    IN  IF p.ok
        THEN IF st.last_progress # p.val
             THEN [st EXCEPT !.callback = Append(@, p.val),
                             !.last_progress = p.val]
             ELSE st
        ELSE IF Len(line) # 0
             THEN [st EXCEPT !.output = @ \o line \o <<LF>>]
             ELSE st

\* The body of `for line in string.split(..)`
HandleLine(st, line) ==
    IF IsProgressShape(line)
    THEN LET p == ParseI32(Trim(ProgressField(line)))
         IN  IF p.ok /\ st.last_progress # p.val
             THEN [st EXCEPT !.callback = Append(@, p.val),
                             !.last_progress = p.val]
             ELSE st
    ELSE IF Len(line) # 0
         THEN [st EXCEPT !.output = @ \o line \o <<LF>>]
         ELSE st

RECURSIVE HandleLines(_, _)
HandleLines(st, lines) ==
    IF lines = <<>> THEN st
    ELSE HandleLines(HandleLine(st, Head(lines)), Tail(lines))

\* One iteration of the read loop on the data of one successful read
HandleChunk(st, chunk) ==
    IF Utf8Ok(chunk) THEN HandleLines(st, Split(chunk)) ELSE st

\* ---------------------------------------------------- the tool's output
RECURSIVE Digits(_)
Digits(n) ==
    IF n < 10 THEN <<DigitChars[n + 1]>>
    ELSE Digits(n \div 10) \o <<DigitChars[(n % 10) + 1]>>

\* printf's %3d: right-aligned in a field of three
Pad3(n) ==
    LET d == IF n < 0 THEN <<"-">> \o Digits(0 - n) ELSE Digits(n)
    IN  IF Len(d) >= 3 THEN d
        ELSE IF Len(d) = 2 THEN <<" ">> \o d
        ELSE <<" ", " ">> \o d

\* The progress line unsquashfs writes for a percentage: a bar, then "%3d%%"
ProgressLine(v) == <<"[", "=", "]", " ">> \o Pad3(v) \o <<"%">>

ErrLine == <<"e", "r", "r">>

WarnLine == <<"w">>

\* What one read of the pty master may deliver while extract() runs
MainChunks ==
    { ProgressLine(50) \o <<CR>> \o WarnLine \o <<LF>>,
      ErrLine \o <<LF>> \o WarnLine \o <<LF>> }

\* The lines of a whole output stream, for the parser taken alone: progress
\* lines for a few percentages, a diagnostic line, a line of progress shape
\* whose field is no number, an empty line, the line "[abc%]", and a
\* diagnostic line that names a file whose name is not UTF-8
ProgressValues == {0, 10, 55, 100}
GarbledLine == <<"[", "a", "b", "c", "%">>
BracketedLine == <<"[", "a", "b", "c", "%", "]">>
NonUtf8Line == <<"f", InvalidByte>>
StreamItems ==
    {[progress |-> TRUE, val |-> v, text |-> <<>>] : v \in ProgressValues}
    \cup {[progress |-> FALSE, val |-> 0, text |-> t] :
              t \in {ErrLine, GarbledLine, <<>>, BracketedLine, NonUtf8Line}}

\* unsquashfs ends a progress line with a carriage return, any other line
\* with a line feed
Render(item) ==
    IF item.progress THEN ProgressLine(item.val) \o <<CR>>
    ELSE item.text \o <<LF>>

RECURSIVE RenderAll(_)
RenderAll(its) ==
    IF its = <<>> THEN <<>> ELSE Render(Head(its)) \o RenderAll(Tail(its))

\* The reads a stream is delivered in: whole, or cut in two after `cut` bytes
Chunked(stream, cut) ==
    IF stream = <<>> THEN <<>>
    ELSE IF cut = 0 THEN <<stream>>
    ELSE <<SubSeq(stream, 1, cut), SubSeq(stream, cut + 1, Len(stream))>>

\* ------------------------------------------------------------------- state
VARIABLES
    status,      \* Unsquashfs.status: "Pending" or "Working"
    cancel,      \* Unsquashfs.cancel: the AtomicBool
    ePc,         \* where the thread calling extract() is
    calls,       \* extract() calls begun so far
    eRes,        \* what the last extract() call returned
    hRes,        \* what handle() returned in the current call
    handleSt,    \* handle()'s locals: last_progress, output, callback calls
    reads,       \* reads that returned data in the current handle() call
    readLog,     \* the data those reads returned, in order
    readEnd,     \* how the read that ended the current handle() call ended
    pPc,         \* where each process_control thread is
    pWait,       \* its local `wait`, the result of child.try_wait()
    pRes,        \* how it ended and what it returned
    child,       \* each call's child process
    cPc,         \* where each thread calling cancel() is
    cRes,        \* what its cancel() returned
    pending,     \* parser alone: the reads the stream still holds
    items        \* parser alone: the lines the stream was made of

vars == <<status, cancel, ePc, calls, eRes, hRes, handleSt, reads, readLog,
          readEnd, pPc, pWait, pRes, child, cPc, cRes, pending, items>>

procVars == <<status, cancel, ePc, calls, eRes, pPc, pWait, pRes, child,
              cPc, cRes>>
handleVars == <<hRes, handleSt, reads, readLog, readEnd>>
streamVars == <<pending, items>>

\* ExitStatus values the child may end with: a clean exit, a failing exit
\* code, and death by a signal (ExitStatus::code() is None)
Signalled == -1
ExitOutcomes == {0, 2, Signalled}
StillRunning == -9

NoChild == [st |-> "none", outcome |-> StillRunning]
NoResult == [kind |-> "none", detail |-> "none", code |-> 0, transcript |-> <<>>]
NoPoll == [kind |-> "none", code |-> 0]

\* Threads that hold the read lock of `status`
Readers == {c \in Cancellers : cPc[c] \in {"store", "unlock"}}

\* As WriteLockFree, with writers that do not wait for the readers
WriteLockIgnored == TRUE

\* RwLock::write() is granted only when no reader holds the lock
WriteLockFree == Readers = {}

Init ==
    /\ status = "Pending"
    /\ cancel = FALSE
    /\ ePc = "idle"
    /\ calls = 0
    /\ eRes = NoResult
    /\ hRes = "none"
    /\ handleSt = HandleStart
    /\ reads = 0
    /\ readLog = <<>>
    /\ readEnd = "none"
    /\ pPc = [a \in Attempts |-> "none"]
    /\ pWait = [a \in Attempts |-> StillRunning]
    /\ pRes = [a \in Attempts |-> NoPoll]
    /\ child = [a \in Attempts |-> NoChild]
    /\ cPc = [c \in Cancellers |-> "idle"]
    /\ cRes = [c \in Cancellers |-> "none"]
    /\ pending = <<>>
    /\ items = <<>>

\* ------------------------------------------------------------- extract()
OkResult == [kind |-> "Ok", detail |-> "none", code |-> 0, transcript |-> <<>>]
NotFoundResult == [NoResult EXCEPT !.kind = "NotFound"]
IoResult == [NoResult EXCEPT !.kind = "Io"]

\* As ExtractBegin, with the child spawned before the binary is looked up
ExtractBeginSpawningFirst ==
    /\ ePc = "idle"
    /\ calls < MaxExtracts
    /\ calls' = calls + 1
    /\ hRes' = "none"
    /\ handleSt' = HandleStart
    /\ reads' = 0
    /\ readLog' = <<>>
    /\ readEnd' = "none"
    /\ child' = [child EXCEPT ![calls + 1] =
                    [st |-> "running", outcome |-> StillRunning]]
    /\ \E binaryFound \in BOOLEAN, pathsOk \in BOOLEAN :
         IF ~binaryFound THEN ePc' = "idle" /\ eRes' = NotFoundResult
         ELSE IF ~pathsOk THEN ePc' = "idle" /\ eRes' = IoResult
         ELSE ePc' = "spawn" /\ eRes' = NoResult
    /\ UNCHANGED <<status, cancel, pPc, pWait, pRes, cPc, cRes>>
    /\ UNCHANGED streamVars

\* Lines 189-207: which::which fails, or a path cannot be canonicalized or
\* is not UTF-8; otherwise the command is built.  A call starts handle()'s
\* locals afresh.
ExtractBegin ==
    /\ ePc = "idle"
    /\ calls < MaxExtracts
    /\ calls' = calls + 1
    /\ hRes' = "none"
    /\ handleSt' = HandleStart
    /\ reads' = 0
    /\ readLog' = <<>>
    /\ readEnd' = "none"
    /\ \E binaryFound \in BOOLEAN, pathsOk \in BOOLEAN :
         IF ~binaryFound THEN ePc' = "idle" /\ eRes' = NotFoundResult
         ELSE IF ~pathsOk THEN ePc' = "idle" /\ eRes' = IoResult
         ELSE ePc' = "spawn" /\ eRes' = NoResult
    /\ UNCHANGED <<status, cancel, pPc, pWait, pRes, child, cPc, cRes>>
    /\ UNCHANGED streamVars

\* Lines 224-238: slave_stdio(..)? and command.spawn()?
ExtractSpawn ==
    /\ ePc = "spawn"
    /\ \E spawned \in BOOLEAN :
         IF spawned
         THEN /\ child' = [child EXCEPT ![calls] =
                              [st |-> "running", outcome |-> StillRunning]]
              /\ ePc' = "set_working"
              /\ eRes' = eRes
         ELSE /\ child' = child
              /\ ePc' = "idle"
              /\ eRes' = IoResult
    /\ UNCHANGED <<status, cancel, calls, pPc, pWait, pRes, cPc, cRes>>
    /\ UNCHANGED handleVars
    /\ UNCHANGED streamVars

\* Line 240: *self.status.write().unwrap() = Status::Working
ExtractSetWorking ==
    /\ ePc = "set_working"
    /\ WriteLockFree
    /\ status' = "Working"
    /\ ePc' = "thread_spawn"
    /\ UNCHANGED <<cancel, calls, eRes, pPc, pWait, pRes, child, cPc, cRes>>
    /\ UNCHANGED handleVars
    /\ UNCHANGED streamVars

\* Line 251: thread::spawn of process_control
ExtractStartThread ==
    /\ ePc = "thread_spawn"
    /\ pPc' = [pPc EXCEPT ![calls] = "try_wait"]
    /\ ePc' = "handle"
    /\ UNCHANGED <<status, cancel, calls, eRes, pWait, pRes, child, cPc, cRes>>
    /\ UNCHANGED handleVars
    /\ UNCHANGED streamVars

\* Lines 113-142, Ok(c): one read that returns data, and the lines in it
HandleRead ==
    /\ ePc = "handle"
    /\ reads < MaxReads
    /\ \E chunk \in MainChunks :
         /\ handleSt' = HandleChunk(handleSt, chunk)
         /\ readLog' = Append(readLog, chunk)
    /\ reads' = reads + 1
    /\ UNCHANGED <<hRes, readEnd>>
    /\ UNCHANGED procVars
    /\ UNCHANGED streamVars

\* As ReadReturn, with EIO treated like any other error
ReadReturnEioFails(outcome) == IF outcome = "eof" THEN "Ok" ELSE "Err"

\* Lines 113-123: what handle() returns when a read gives no data: Ok(output)
\* for Ok(0) and for EIO, the error for any other error
ReadReturn(outcome) == IF outcome \in {"eof", "eio"} THEN "Ok" ELSE "Err"

ReadEnds == {"eof", "eio", "error"}

\* Lines 114 and 119: Ok(0), or EIO because the slave end is closed
HandleEnd ==
    /\ ePc = "handle"
    /\ \E outcome \in ReadEnds :
         /\ ReadReturn(outcome) = "Ok"
         /\ readEnd' = outcome
    /\ hRes' = "Ok"
    /\ ePc' = "join"
    /\ UNCHANGED <<status, cancel, calls, eRes, pPc, pWait, pRes, child, cPc, cRes>>
    /\ UNCHANGED <<handleSt, reads, readLog>>
    /\ UNCHANGED streamVars

\* Lines 121 and 286: any other read error; `handle(..)?` returns it from
\* extract() at once
HandleReadError ==
    /\ ePc = "handle"
    /\ \E outcome \in ReadEnds :
         /\ ReadReturn(outcome) = "Err"
         /\ readEnd' = outcome
    /\ hRes' = "Err"
    /\ ePc' = "idle"
    /\ eRes' = IoResult
    /\ UNCHANGED <<status, cancel, calls, pPc, pWait, pRes, child, cPc, cRes>>
    /\ UNCHANGED <<handleSt, reads, readLog>>
    /\ UNCHANGED streamVars

\* As JoinResult, with the parser's output left out of the error
JoinResultWithoutOutput(p, out) ==
    IF p.kind \in {"Success", "Killed"} THEN OkResult
    ELSE [kind |-> "Other",
          detail |-> IF p.kind = "Failure" THEN "exit" ELSE "os",
          code |-> p.code,
          transcript |-> <<>>]

\* As JoinResult, with a killed child reported as a failure
JoinResultKilledFails(p, out) ==
    IF p.kind = "Success" THEN OkResult
    ELSE [kind |-> "Other",
          detail |-> IF p.kind = "Failure" THEN "exit" ELSE "os",
          code |-> p.code,
          transcript |-> out]

\* Lines 288-293: the thread's Ok(()) is Ok(()); its Err(e), from a failing
\* exit status or from try_wait/kill, becomes Other("Output: {output}, {e}")
JoinResult(p, out) ==
    IF p.kind \in {"Success", "Killed"} THEN OkResult
    ELSE [kind |-> "Other",
          detail |-> IF p.kind = "Failure" THEN "exit" ELSE "os",
          code |-> p.code,
          transcript |-> out]

ExtractJoin ==
    /\ ePc = "join"
    /\ pPc[calls] = "done"
    /\ eRes' = JoinResult(pRes[calls], handleSt.output)
    /\ ePc' = "idle"
    /\ UNCHANGED <<status, cancel, calls, pPc, pWait, pRes, child, cPc, cRes>>
    /\ UNCHANGED handleVars
    /\ UNCHANGED streamVars

\* -------------------------------------------------------------- the child
\* The child ends by itself: exit(0), a failing exit code, or a signal
ChildExit(a) ==
    /\ child[a].st = "running"
    /\ \E o \in ExitOutcomes :
         child' = [child EXCEPT ![a] = [st |-> "exited", outcome |-> o]]
    /\ UNCHANGED <<status, cancel, ePc, calls, eRes, pPc, pWait, pRes, cPc, cRes>>
    /\ UNCHANGED handleVars
    /\ UNCHANGED streamVars

\* ------------------------------------------------- process_control thread
\* The thread ends with an OS error from try_wait or kill (the `?`)
PollFail(a) ==
    /\ pPc' = [pPc EXCEPT ![a] = "done"]
    /\ pRes' = [pRes EXCEPT ![a] = [kind |-> "Error", code |-> 0]]

\* Line 253: child.try_wait()?
PollTryWait(a) ==
    /\ pPc[a] = "try_wait"
    /\ \E osError \in BOOLEAN :
         IF osError
         THEN PollFail(a) /\ pWait' = pWait
         ELSE /\ pWait' = [pWait EXCEPT ![a] = child[a].outcome]
              /\ pPc' = [pPc EXCEPT ![a] = "load"]
              /\ pRes' = pRes
    /\ UNCHANGED <<status, cancel, ePc, calls, eRes, child, cPc, cRes>>
    /\ UNCHANGED handleVars
    /\ UNCHANGED streamVars

\* As PollLoad, with the exit status looked at before the flag
PollLoadExitFirst(a) ==
    /\ pPc[a] = "load"
    /\ pPc' = [pPc EXCEPT ![a] =
                  IF pWait[a] # StillRunning THEN "status_exit"
                  ELSE IF cancel THEN "kill"
                  ELSE "try_wait"]
    /\ UNCHANGED <<status, cancel, ePc, calls, eRes, pWait, pRes, child, cPc, cRes>>
    /\ UNCHANGED handleVars
    /\ UNCHANGED streamVars

\* Lines 255 and 264-267: cc.load(..); with the flag unset and no exit status
\* yet, sleep and try again
PollLoad(a) ==
    /\ pPc[a] = "load"
    /\ pPc' = [pPc EXCEPT ![a] =
                  IF cancel THEN "kill"
                  ELSE IF pWait[a] = StillRunning THEN "try_wait"
                  ELSE "status_exit"]
    /\ UNCHANGED <<status, cancel, ePc, calls, eRes, pWait, pRes, child, cPc, cRes>>
    /\ UNCHANGED handleVars
    /\ UNCHANGED streamVars

\* Line 256: child.kill()?
PollKill(a) ==
    /\ pPc[a] = "kill"
    /\ \E osError \in BOOLEAN :
         IF osError
         THEN PollFail(a) /\ child' = child
         ELSE /\ child' = [child EXCEPT ![a] =
                              IF @.st = "running"
                              THEN [st |-> "killed", outcome |-> Signalled]
                              ELSE @]
              /\ pPc' = [pPc EXCEPT ![a] = "store"]
              /\ pRes' = pRes
    /\ UNCHANGED <<status, cancel, ePc, calls, eRes, pWait, cPc, cRes>>
    /\ UNCHANGED handleVars
    /\ UNCHANGED streamVars

\* Line 257: cc.store(false, ..)
PollStore(a) ==
    /\ pPc[a] = "store"
    /\ cancel' = FALSE
    /\ pPc' = [pPc EXCEPT ![a] = "status_killed"]
    /\ UNCHANGED <<status, ePc, calls, eRes, pWait, pRes, child, cPc, cRes>>
    /\ UNCHANGED handleVars
    /\ UNCHANGED streamVars

\* Lines 258-259: Status::Pending, return Ok(())
PollStatusKilled(a) ==
    /\ pPc[a] = "status_killed"
    /\ WriteLockFree
    /\ status' = "Pending"
    /\ pPc' = [pPc EXCEPT ![a] = "done"]
    /\ pRes' = [pRes EXCEPT ![a] = [kind |-> "Killed", code |-> 0]]
    /\ UNCHANGED <<cancel, ePc, calls, eRes, pWait, child, cPc, cRes>>
    /\ UNCHANGED handleVars
    /\ UNCHANGED streamVars

\* Lines 271-281: wait.success(), and wait.code().unwrap_or(1) otherwise
ExitResult(wait) ==
    IF wait = 0 THEN [kind |-> "Success", code |-> 0]
    ELSE [kind |-> "Failure", code |-> IF wait = Signalled THEN 1 ELSE wait]

\* Lines 269-281: Status::Pending, then the exit status decides the result
PollStatusExit(a) ==
    /\ pPc[a] = "status_exit"
    /\ WriteLockFree
    /\ status' = "Pending"
    /\ pPc' = [pPc EXCEPT ![a] = "done"]
    /\ pRes' = [pRes EXCEPT ![a] = ExitResult(pWait[a])]
    /\ UNCHANGED <<cancel, ePc, calls, eRes, pWait, child, cPc, cRes>>
    /\ UNCHANGED handleVars
    /\ UNCHANGED streamVars

\* ---------------------------------------------------------------- cancel()
\* As CancelCall, with the flag stored before Status is looked at
CancelCallStoringFirst(c) ==
    /\ cPc[c] = "idle"
    /\ \A b \in Cancellers : b < c => cPc[b] # "idle"
    /\ cancel' = TRUE
    /\ IF status = "Pending"
       THEN /\ cPc' = [cPc EXCEPT ![c] = "done"]
            /\ cRes' = [cRes EXCEPT ![c] = "NotRunning"]
       ELSE /\ cPc' = [cPc EXCEPT ![c] = "store"]
            /\ cRes' = cRes
    /\ UNCHANGED <<status, ePc, calls, eRes, pPc, pWait, pRes, child>>
    /\ UNCHANGED handleVars
    /\ UNCHANGED streamVars

\* Lines 172-173: status.read(); Pending returns the error.  The threads
\* are alike, so they are numbered in the order their calls begin.
CancelCall(c) ==
    /\ cPc[c] = "idle"
    /\ \A b \in Cancellers : b < c => cPc[b] # "idle"
    /\ IF status = "Pending"
       THEN /\ cPc' = [cPc EXCEPT ![c] = "done"]
            /\ cRes' = [cRes EXCEPT ![c] = "NotRunning"]
       ELSE /\ cPc' = [cPc EXCEPT ![c] = "store"]
            /\ cRes' = cRes
    /\ UNCHANGED <<status, cancel, ePc, calls, eRes, pPc, pWait, pRes, child>>
    /\ UNCHANGED handleVars
    /\ UNCHANGED streamVars

\* As CancelStore, with the flag flipped instead of set
CancelStoreFlipping(c) ==
    /\ cPc[c] = "store"
    /\ cancel' = ~cancel
    /\ cPc' = [cPc EXCEPT ![c] = "unlock"]
    /\ UNCHANGED <<status, ePc, calls, eRes, pPc, pWait, pRes, child, cRes>>
    /\ UNCHANGED handleVars
    /\ UNCHANGED streamVars

\* Line 175: self.cancel.store(true, ..), the read lock still held
CancelStore(c) ==
    /\ cPc[c] = "store"
    /\ cancel' = TRUE
    /\ cPc' = [cPc EXCEPT ![c] = "unlock"]
    /\ UNCHANGED <<status, ePc, calls, eRes, pPc, pWait, pRes, child, cRes>>
    /\ UNCHANGED handleVars
    /\ UNCHANGED streamVars

\* Lines 176-178: Ok(()), and the read guard is dropped
CancelReturn(c) ==
    /\ cPc[c] = "unlock"
    /\ cPc' = [cPc EXCEPT ![c] = "done"]
    /\ cRes' = [cRes EXCEPT ![c] = "Ok"]
    /\ UNCHANGED <<status, cancel, ePc, calls, eRes, pPc, pWait, pRes, child>>
    /\ UNCHANGED handleVars
    /\ UNCHANGED streamVars

\* ------------------------------------------------------- the whole program
Next ==
    \/ ExtractBegin
    \/ ExtractSpawn
    \/ ExtractSetWorking
    \/ ExtractStartThread
    \/ HandleRead
    \/ HandleEnd
    \/ HandleReadError
    \/ ExtractJoin
    \/ \E a \in Attempts : ChildExit(a)
    \/ \E a \in Attempts : PollTryWait(a)
    \/ \E a \in Attempts : PollLoad(a)
    \/ \E a \in Attempts : PollKill(a)
    \/ \E a \in Attempts : PollStore(a)
    \/ \E a \in Attempts : PollStatusKilled(a)
    \/ \E a \in Attempts : PollStatusExit(a)
    \/ \E c \in Cancellers : CancelCall(c)
    \/ \E c \in Cancellers : CancelStore(c)
    \/ \E c \in Cancellers : CancelReturn(c)

Spec == Init /\ [][Next]_vars

\* -------------------------------------------------------- the parser alone
\* handle() run on a whole stream: the stream is chosen at the start, each
\* read returns its next part, and the read after the last returns Ok(0).
ParseInit ==
    /\ status = "Pending"
    /\ cancel = FALSE
    /\ ePc = "idle"
    /\ calls = 0
    /\ eRes = NoResult
    /\ hRes = "none"
    /\ handleSt = HandleStart
    /\ reads = 0
    /\ readLog = <<>>
    /\ readEnd = "none"
    /\ pPc = [a \in Attempts |-> "none"]
    /\ pWait = [a \in Attempts |-> StillRunning]
    /\ pRes = [a \in Attempts |-> NoPoll]
    /\ child = [a \in Attempts |-> NoChild]
    /\ cPc = [c \in Cancellers |-> "idle"]
    /\ cRes = [c \in Cancellers |-> "none"]
    /\ items \in UNION {[1..n -> StreamItems] : n \in 0..MaxItems}
    /\ \E cut \in 0..Len(RenderAll(items)) :
         /\ cut < Len(RenderAll(items)) \/ cut = 0
         /\ pending = Chunked(RenderAll(items), cut)

\* Lines 113-142, Ok(c)
ParseRead ==
    /\ hRes = "none"
    /\ pending # <<>>
    /\ handleSt' = HandleChunk(handleSt, Head(pending))
    /\ readLog' = Append(readLog, Head(pending))
    /\ reads' = reads + 1
    /\ pending' = Tail(pending)
    /\ UNCHANGED <<hRes, readEnd, items>>
    /\ UNCHANGED procVars

\* Line 114, Ok(0)
ParseEnd ==
    /\ hRes = "none"
    /\ pending = <<>>
    /\ hRes' = ReadReturn("eof")
    /\ readEnd' = "eof"
    /\ UNCHANGED <<handleSt, reads, readLog>>
    /\ UNCHANGED streamVars
    /\ UNCHANGED procVars

ParseNext == ParseRead \/ ParseEnd

ParseSpec == ParseInit /\ [][ParseNext]_vars

\* Fairness: a thread that has been started keeps running.  The threads of
\* cancel() and the process_control threads take their next step; the
\* thread in extract() does too, except where it waits for the child's
\* output.  When extract() is called, what the child writes and when it
\* exits are up to the environment.
Fairness ==
    /\ WF_vars(ExtractSpawn)
    /\ WF_vars(ExtractSetWorking)
    /\ WF_vars(ExtractStartThread)
    /\ WF_vars(ExtractJoin)
    /\ \A a \in Attempts :
         /\ WF_vars(PollTryWait(a))
         /\ WF_vars(PollLoad(a))
         /\ WF_vars(PollKill(a))
         /\ WF_vars(PollStore(a))
         /\ WF_vars(PollStatusKilled(a))
         /\ WF_vars(PollStatusExit(a))
    /\ \A c \in Cancellers :
         /\ WF_vars(CancelStore(c))
         /\ WF_vars(CancelReturn(c))

LiveSpec == Spec /\ Fairness

\* ------------------------------------------------------------------ claims
Resolved == {"Success", "Failure", "Killed"}

\* The call of extract() numbered a has spawned its child and not returned
InFlight(a) ==
    /\ calls = a
    /\ ePc \in {"set_working", "thread_spawn", "handle", "join"}

\* extract() has returned from a call that spawned a child
ReturnedAfterSpawn == ePc = "idle" /\ calls >= 1 /\ child[calls].st # "none"

OsError == \E a \in Attempts : pRes[a].kind = "Error"

\* C1: once the polling task of an extract() call has ended in
\* Resolved(success), Resolved(failure) or Killed, and before another call
\* of extract() begins, the cancel flag is false.
C1_FlagClearOnceResolved ==
    \A a \in Attempts : (calls = a /\ pRes[a].kind \in Resolved) => ~cancel

\* C2: a cancel() that finds Status Pending returns NotRunning and changes
\* neither Status nor the cancel flag.
C2_RejectedCancelChangesNothing ==
    [][\A c \in Cancellers :
         (cPc[c] = "idle" /\ cPc'[c] # "idle" /\ status = "Pending")
         => /\ cPc'[c] = "done"
            /\ cRes'[c] = "NotRunning"
            /\ status' = status
            /\ cancel' = cancel]_vars

\* A cancel() was rejected, and an extract() on the same instance then ran
\* its child to a clean exit
C2_Witness ==
    /\ \E c \in Cancellers : cRes[c] = "NotRunning"
    /\ \A c \in Cancellers : cRes[c] # "Ok"
    /\ \E a \in Attempts : pRes[a].kind = "Success"
    /\ eRes = OkResult

\* C3: a cancel() that finds Status Working goes on to store true in the
\* cancel flag, whatever the flag held, and returns Ok; none of its steps
\* changes Status.
C3_AcceptedCancelSetsFlag ==
    [][\A c \in Cancellers :
         /\ (cPc[c] = "idle" /\ cPc'[c] # "idle" /\ status = "Working")
            => (cPc'[c] = "store" /\ status' = status)
         /\ (cPc[c] = "store" /\ cPc'[c] # "store")
            => (cPc'[c] = "unlock" /\ cancel' = TRUE /\ status' = status)
         /\ (cPc[c] = "unlock" /\ cPc'[c] # "unlock")
            => (cPc'[c] = "done" /\ cRes'[c] = "Ok" /\ cancel' = cancel
                /\ status' = status)]_vars

\* A second cancel() has stored into a flag the first had already set, and
\* both returned Ok during one attempt
C3_Witness ==
    /\ \A c \in Cancellers : cRes[c] = "Ok"
    /\ cancel
    /\ calls = 1
    /\ pPc[1] \in {"try_wait", "load"}

\* C4: under fair scheduling and with no OS error from try_wait or kill, a
\* cancel() that succeeds while a call of extract() is in flight leads to
\* that call's child being terminated and to Status being Pending.
C4_CancelLeadsToTermination ==
    \A a \in Attempts :
        /\ (InFlight(a) /\ \E c \in Cancellers : cPc[c] = "unlock")
              ~> (OsError \/ child[a].st # "running")
        /\ (InFlight(a) /\ \E c \in Cancellers : cPc[c] = "unlock")
              ~> (OsError \/ status = "Pending")

\* C5: Status is Working exactly when some call's child has been spawned
\* and that call's polling task has not yet taken its terminal step.
C5_StatusIffChildUnresolved ==
    (status = "Working")
        <=> (\E a \in Attempts : child[a].st # "none" /\ pPc[a] # "done")

\* C6: when extract() has returned from a call that spawned a child, the
\* polling task of that call has ended and the child is no longer running.
C6_ReturnOnlyAfterJoin ==
    ReturnedAfterSpawn
        => (pPc[calls] = "done" /\ child[calls].st # "running")

\* C7: whenever extract() has returned, Status is Pending.
C7_PendingOnReturn ==
    (ePc = "idle" /\ calls >= 1) => status = "Pending"

\* C10: from the start of a polling task to its terminal step Status is
\* Working, so every cancel() issued in that span is accepted.
C10_WorkingWhilePolling ==
    \A a \in Attempts : pPc[a] \notin {"none", "done"} => status = "Working"

\* Each maximal run of equal values reduced to one element
RECURSIVE Collapse(_)
Collapse(vs) ==
    IF Len(vs) <= 1 THEN vs
    ELSE IF vs[1] = vs[2] THEN Collapse(Tail(vs))
    ELSE <<vs[1]>> \o Collapse(Tail(vs))

\* The stream holds progress lines only, and every read ends with a line
ProgressLinesOnly ==
    /\ items # <<>>
    /\ \A i \in 1..Len(items) : items[i].progress
    /\ \A i \in 1..Len(readLog) : readLog[i][Len(readLog[i])] \in Separators

\* C8: when the stream is progress lines with values v1..vn, the callback
\* has been called with exactly the collapse of v1..vn when parsing ends.
C8_CallbackIsCollapse ==
    (hRes = "Ok" /\ pending = <<>> /\ ProgressLinesOnly)
        => handleSt.callback = Collapse([i \in 1..Len(items) |-> items[i].val])

\* The lines of the data read, in order
RECURSIVE LinesOf(_)
LinesOf(chunks) ==
    IF chunks = <<>> THEN <<>>
    ELSE Split(Head(chunks)) \o LinesOf(Tail(chunks))

\* The non-empty lines without progress shape, each followed by a line feed
RECURSIVE TranscriptOf(_)
TranscriptOf(lines) ==
    IF lines = <<>> THEN <<>>
    ELSE (IF Head(lines) # <<>> /\ ~IsProgressShape(Head(lines))
          THEN Head(lines) \o <<LF>> ELSE <<>>) \o TranscriptOf(Tail(lines))

FailureWith(code) ==
    [kind |-> "Other", detail |-> "exit", code |-> code,
     transcript |-> TranscriptOf(LinesOf(readLog))]

RECURSIVE Concat(_)
Concat(chunks) ==
    IF chunks = <<>> THEN <<>> ELSE Head(chunks) \o Concat(Tail(chunks))

\* The lines of the whole stream read, wherever the reads cut it
StreamLines == Split(Concat(readLog))

\* The lines the parser gets to see: those of the reads that are UTF-8
SeenLines == LinesOf(SelectSeq(readLog, Utf8Ok))

\* C11: when parsing has ended, the transcript is the non-empty lines of
\* the stream that have no progress shape, each followed by one line feed,
\* in order; and the callback calls are those the progress-shaped lines
\* alone would give.
C11_TranscriptIsOtherLines ==
    hRes = "Ok"
        => /\ handleSt.output = TranscriptOf(StreamLines)
           /\ handleSt.callback =
                  HandleLines(HandleStart,
                              SelectSeq(StreamLines, IsProgressShape)).callback

\* A line of progress shape whose field is no number
Garbled(line) ==
    IsProgressShape(line) /\ ~ParseI32(Trim(ProgressField(line))).ok

NotGarbled(line) == ~Garbled(line)

NotLikeAbc(line) == ~Garbled(line) /\ line # BracketedLine

RECURSIVE ParsedValues(_)
ParsedValues(lines) ==
    IF lines = <<>> THEN <<>>
    ELSE (IF IsProgressShape(Head(lines)) /\ ~Garbled(Head(lines))
          THEN <<ParseI32(Trim(ProgressField(Head(lines)))).val>> ELSE <<>>)
         \o ParsedValues(Tail(lines))

\* The values that differ from the value remembered, which is `last` at first
RECURSIVE Emitted(_, _)
Emitted(last, vals) ==
    IF vals = <<>> THEN <<>>
    ELSE IF Head(vals) = last THEN Emitted(last, Tail(vals))
    ELSE <<Head(vals)>> \o Emitted(Head(vals), Tail(vals))

\* C14: no two successive callback calls carry the same value, and the
\* calls are exactly the parsed values that differ from the value the
\* parser remembers (0 before the first call), however the stream is cut
\* into reads.
C14_NoRepeatedCallback ==
    /\ \A i \in 1..(Len(handleSt.callback) - 1) :
          handleSt.callback[i] # handleSt.callback[i + 1]
    /\ handleSt.callback = Emitted(0, ParsedValues(SeenLines))
    /\ handleSt.last_progress =
          IF handleSt.callback = <<>> THEN 0
          ELSE handleSt.callback[Len(handleSt.callback)]

\* 55, 10 and 10 came in two reads and the callback got 55, 10
C14_Witness ==
    /\ hRes = "Ok"
    /\ Len(readLog) = 2
    /\ ParsedValues(SeenLines) = <<55, 10, 10>>
    /\ handleSt.callback = <<55, 10>>

\* C19: when parsing of a stream of valid UTF-8 has ended, callback calls
\* and transcript are those of the whole stream delivered in one read.
C19_ChunkingDoesNotMatter ==
    (hRes = "Ok" /\ Utf8Ok(Concat(readLog)))
        => LET whole == HandleChunk(HandleStart, Concat(readLog))
           IN  /\ handleSt.callback = whole.callback
               /\ handleSt.output = whole.output

\* ------------------------------------------------ claims on extract()'s paths
\* C13: a call of extract() that returns BinaryNotFound does so in its first
\* step: the step changes neither Status nor the cancel flag, creates no
\* child and starts no polling thread, and after it the call has no child,
\* no polling thread and no callback call.
C13_NotFoundBeforeAnySpawn ==
    /\ [](eRes.kind = "NotFound"
            => /\ ePc = "idle"
               /\ child[calls].st = "none"
               /\ pPc[calls] = "none"
               /\ handleSt.callback = <<>>)
    /\ [][(calls' # calls /\ eRes'.kind = "NotFound")
            => /\ status' = status
               /\ cancel' = cancel
               /\ child' = child
               /\ pPc' = pPc]_vars

\* The second call found no binary, after a first call that spawned a child
C13_Witness ==
    /\ calls = 2
    /\ eRes = NotFoundResult
    /\ child[1].st # "none"
    /\ child[2].st = "none"

\* What one step of the polling thread a may do, by the place it is at
PollingStep(a) ==
    LET failed == pRes'[a] = [kind |-> "Error", code |-> 0] /\ pPc'[a] = "done"
        quiet == status' = status /\ cancel' = cancel /\ child' = child
    IN  CASE pPc[a] = "try_wait" ->
                 /\ quiet
                 /\ failed \/ (pPc'[a] = "load" /\ pRes'[a] = pRes[a])
          [] pPc[a] = "load" ->
                 /\ quiet
                 /\ pRes'[a] = pRes[a]
                 /\ pPc'[a] = IF cancel THEN "kill"
                              ELSE IF pWait[a] \in ExitOutcomes THEN "status_exit"
                              ELSE "try_wait"
          [] pPc[a] = "kill" ->
                 \/ failed /\ quiet
                 \/ /\ pPc'[a] = "store"
                    /\ child'[a].st # "running"
                    /\ status' = status /\ cancel' = cancel
                    /\ pRes'[a] = pRes[a]
          [] pPc[a] = "store" ->
                 /\ pPc'[a] = "status_killed"
                 /\ cancel' = FALSE
                 /\ status' = status /\ child' = child
                 /\ pRes'[a] = pRes[a]
          [] pPc[a] = "status_killed" ->
                 /\ pPc'[a] = "done"
                 /\ status' = "Pending"
                 /\ cancel' = cancel /\ child' = child
                 /\ pRes'[a] = [kind |-> "Killed", code |-> 0]
          [] pPc[a] = "status_exit" ->
                 /\ pPc'[a] = "done"
                 /\ status' = "Pending"
                 /\ cancel' = cancel /\ child' = child
                 /\ pRes'[a] = IF pWait[a] = 0
                                THEN [kind |-> "Success", code |-> 0]
                                ELSE [kind |-> "Failure",
                                      code |-> IF pWait[a] = Signalled
                                               THEN 1 ELSE pWait[a]]
          [] OTHER -> TRUE

\* C15: every step of a polling thread is the one its state machine names.
\* Having seen the flag set it kills the child, then clears the flag, then
\* writes Pending and ends Killed, whether or not the child had exited;
\* having seen the flag unset and an exit status it writes Pending and ends
\* with the success or the failure and its code; otherwise it goes back to
\* try_wait with Status and flag as they were.  (A failing try_wait or kill
\* ends the thread instead: C17.)
C15_PollingStateMachine ==
    /\ [][\A a \in Attempts : pPc'[a] # pPc[a] => PollingStep(a)]_vars
    /\ [](\A a \in Attempts :
            /\ (pPc[a] \in {"store", "status_killed"}) => child[a].st # "running"
            /\ (pRes[a].kind = "Killed") => child[a].st # "running"
            /\ (pRes[a].kind = "Success")
                  => child[a] = [st |-> "exited", outcome |-> 0]
            /\ (pRes[a].kind = "Failure")
                  => /\ child[a].st = "exited"
                     /\ child[a].outcome # 0
                     /\ pRes[a].code = IF child[a].outcome = Signalled
                                        THEN 1 ELSE child[a].outcome)

\* A thread ended Killed although its child had exited with 0
C15_Witness ==
    \E a \in Attempts :
        /\ pRes[a].kind = "Killed"
        /\ child[a] = [st |-> "exited", outcome |-> 0]
        /\ status = "Pending"

\* C16: when the polling thread ended Killed and handle() ended without a
\* read error, extract() returns Ok(()), the result of a clean exit.
C16_CancelledIsSuccess ==
    (ReturnedAfterSpawn /\ hRes = "Ok" /\ pRes[calls].kind = "Killed")
        => eRes = OkResult

\* extract() returned Ok(()) for a child that was killed
C16_Witness ==
    /\ ReturnedAfterSpawn
    /\ hRes = "Ok"
    /\ pRes[calls].kind = "Killed"
    /\ child[calls].st = "killed"
    /\ eRes = OkResult

\* C17: a polling thread that got an OS error from try_wait or kill has
\* ended, and a call of extract() whose polling thread got one returns the
\* error ("Output: .., {e}").
C17_OsErrorSurfaced ==
    /\ \A a \in Attempts : (pRes[a].kind = "Error") => pPc[a] = "done"
    /\ (ReturnedAfterSpawn /\ pRes[calls].kind = "Error")
          => (eRes.kind = "Other" /\ eRes.detail = "os")

C20_FlagSetOnlyWhileWorking ==
    /\ [][(~cancel /\ cancel') => (status = "Working" /\ status' = "Working")]_vars
    /\ [](Readers # {} => status = "Working")

\* cancel() holds the read lock with the flag set while a polling thread
\* waits to write Pending
C20_Witness ==
    /\ cancel
    /\ \E c \in Cancellers : cPc[c] = "unlock"
    /\ \E a \in Attempts : pPc[a] \in {"status_killed", "status_exit"}

====
